---- MODULE Spec2Model ----
(***************************************************************************)
(* storageclass-restrict: two command-line programs that patch the        *)
(* ResourceQuota objects of a cluster.                                     *)
(*   - the restriction tool (src/unnamed/part_000): -a add | remove        *)
(*   - the migration tool (src/main.go): -m migrate | set-zero             *)
(* A run is: NewConfig (flags, client), CheckIfStorageclassExist, one      *)
(* batch function (List, then one Patch per object of the listing), and    *)
(* main's report.  The cluster outlives the run; the process may be        *)
(* started again.                                                          *)
(***************************************************************************)
EXTENDS Integers, Sequences, FiniteSets, TLC

VARIABLES
    cluster,    \* ResourceQuota object -> spec.hard, a set of <<key, quantity>>
    pc,         \* position of the process
    cfg,        \* the Config struct
    rqs,        \* rqs.Items: the listed copies, <<[obj, hard], ...>>
    idx,        \* position of the range loop in rqs.Items
    errorList,  \* errorList of the batch function
    ret,        \* the error the batch function returned
    lookups,    \* StorageClasses().Get calls issued in this run, in order
    listCalls,  \* ResourceQuotas().List calls issued in this run
    requests,   \* ResourceQuotas().Patch calls issued in this run, in order
    outcomes,   \* per listed object: "Applied", "Skipped" or "Failed"
    run,        \* number of the current run of the process
    prev        \* what the previous run of the process did

vars == <<cluster, pc, cfg, rqs, idx, errorList, ret, lookups, listCalls,
          requests, outcomes, run, prev>>

(***************************************************************************)
(* Bounds and universe                                                     *)
(***************************************************************************)
MaxRuns == 2

ResourceQuotas ==
    << [namespace |-> "ns1", name |-> "rq-a"],
       [namespace |-> "ns2", name |-> "rq-b"],
       [namespace |-> "ns2", name |-> "rq-c"] >>

ExistingClasses == {"sc1", "sc2"}

ClassFlags == {"", "sc1", "sc2", "nosuch"}
NamespaceFlags == {"", "ns1", "ns9"}
ActionFlags == {"add", "remove", "purge"}
ModeFlags == {"migrate", "set-zero", "copy"}

\* A quantity string is <<digits, suffix>>: <<50, "G">> is "50G".
RawSizes == { <<0, "">>, <<50, "G">>, <<50000, "M">>, <<0, "Gi">>, <<50, "GB">> }

Nil == [kind |-> "nil", errs |-> <<>>]
Null == <<"null">>
NoObject == [namespace |-> "", name |-> ""]
NoRun == [tool |-> "", mode |-> "", sc |-> "", listed |-> <<>>,
          outcomes |-> <<>>, clean |-> FALSE]
NoConfig == [tool |-> "", storageclass |-> "", action |-> "", size |-> <<0, "">>,
             oldStorageclass |-> "", newStorageclass |-> "", namespace |-> "",
             mode |-> ""]

(***************************************************************************)
(* resource.Quantity: ParseQuantity and String                            *)
(***************************************************************************)
DecimalSuffixes == <<"", "k", "M", "G", "T", "P", "E">>
BinarySuffixes == <<"Ki", "Mi", "Gi", "Ti", "Pi", "Ei">>

SeqRange(s) == { s[i] : i \in 1..Len(s) }
IndexOf(s, x) == CHOOSE i \in 1..Len(s) : s[i] = x

\* ParseQuantity: an error for an unknown suffix, else the number and its format.
ParseQuantity(raw) ==
    IF raw[2] \in SeqRange(DecimalSuffixes)
      THEN [ok |-> TRUE, n |-> raw[1], i |-> IndexOf(DecimalSuffixes, raw[2]),
            format |-> "DecimalSI"]
    ELSE IF raw[2] \in SeqRange(BinarySuffixes)
      THEN [ok |-> TRUE, n |-> raw[1], i |-> IndexOf(BinarySuffixes, raw[2]),
            format |-> "BinarySI"]
    ELSE [ok |-> FALSE]

RECURSIVE Canonical(_, _, _, _)
Canonical(n, i, sufs, base) ==
    IF n % base = 0 /\ i < Len(sufs)
      THEN Canonical(n \div base, i + 1, sufs, base)
      ELSE <<n, sufs[i]>>

\* Quantity.String: zero is "0"; otherwise the largest suffix that leaves an
\* integer mantissa, in the quantity's own format.
QuantityString(q) ==
    IF q.n = 0 THEN <<0, "">>
    ELSE IF q.format = "DecimalSI" THEN Canonical(q.n, q.i, DecimalSuffixes, 1000)
    ELSE Canonical(q.n, q.i, BinarySuffixes, 1024)

ZeroString == <<0, "">>

(***************************************************************************)
(* Resource keys and patch documents                                       *)
(***************************************************************************)
GenericKey == <<"", "requests.storage">>
StorageclassKey(sc) == <<sc, ".storageclass.storage.k8s.io/requests.storage">>

\* A patch document is the sequence of "key": value members of spec.hard.
patchAddTemplate(sc, size) == << <<StorageclassKey(sc), size>> >>
\* Variant: remove writes "0" instead of null.
patchDeleteTemplateZero(sc) == << <<StorageclassKey(sc), ZeroString>> >>
patchDeleteTemplate(sc) == << <<StorageclassKey(sc), Null>> >>
\* Variant: the quota is moved, requests.storage itself is zeroed.
patchMigrateTemplateMove(a, quota, b) ==
    << <<StorageclassKey(a), quota>>, <<GenericKey, ZeroString>> >>
patchMigrateTemplate(a, quota, b) ==
    << <<StorageclassKey(a), quota>>, <<StorageclassKey(b), ZeroString>> >>
patchSetZeroTemplate(sc) == << <<StorageclassKey(sc), ZeroString>> >>

Has(hard, key) == \E p \in hard : p[1] = key
Get(hard, key) == (CHOOSE p \in hard : p[1] = key)[2]

\* The API server's merge of a patch document into spec.hard: members are
\* taken in order, null removes the key, a value is stored in canonical form.
RECURSIVE StrategicMergePatch(_, _)
StrategicMergePatch(hard, doc) ==
    IF doc = <<>> THEN hard
    ELSE LET key == Head(doc)[1]
             val == Head(doc)[2]
             rest == { p \in hard : p[1] # key }
         IN StrategicMergePatch(
                IF val = Null THEN rest
                ELSE rest \cup { <<key, QuantityString(ParseQuantity(val))>> },
                Tail(doc))

\* ResourceQuotas(namespace).List: the objects of the namespace ("" = all).
ListResourceQuotas(ns) ==
    LET InScope(o) == o \in DOMAIN cluster /\ (ns = "" \/ o.namespace = ns)
        objs == SelectSeq(ResourceQuotas, InScope)
    IN [i \in 1..Len(objs) |-> [obj |-> objs[i], hard |-> cluster[objs[i]]]]

\* The errors a Patch request can return: an API status error, whose message
\* names the object, or a transport error, whose message need not.
PatchErrors(obj) ==
    { [cause |-> "forbidden", names |-> obj],
      [cause |-> "unavailable", names |-> NoObject] }

\* utilerrors.NewAggregate: nil for an empty list.
NewAggregate(errs) ==
    IF errs = <<>> THEN Nil ELSE [kind |-> "aggregate", errs |-> errs]

(***************************************************************************)
(* Initial states                                                          *)
(***************************************************************************)
\* spec.hard of an object before the first run.
HardChoices ==
    { {},
      { <<GenericKey, <<50, "G">>>> },
      { <<GenericKey, <<50, "G">>>>, <<StorageclassKey("sc1"), <<0, "">>>> },
      { <<StorageclassKey("sc1"), <<50, "G">>>>, <<StorageclassKey("sc2"), <<0, "">>>> } }

FreshHardChoices == { {}, { <<GenericKey, <<50, "G">>>> } }

InitProcess ==
    /\ pc = "start"
    /\ cfg = NoConfig
    /\ rqs = <<>>
    /\ idx = 1
    /\ errorList = <<>>
    /\ ret = Nil
    /\ lookups = <<>>
    /\ listCalls = 0
    /\ requests = <<>>
    /\ outcomes = <<>>
    /\ run = 1
    /\ prev = NoRun

\* One run of either program against a cluster of three quota objects.
Init ==
    /\ cluster \in [SeqRange(ResourceQuotas) -> HardChoices]
    /\ InitProcess

\* Successive runs against a cluster of two quota objects.
InitRerun ==
    /\ cluster \in [{ResourceQuotas[1], ResourceQuotas[2]} -> FreshHardChoices]
    /\ InitProcess

(***************************************************************************)
(* Calls to the API server                                                 *)
(***************************************************************************)
\* StorageClasses().Get(name): answered from the cluster, or failing.
GetResults(name) ==
    { IF name \in ExistingClasses THEN "found" ELSE "notfound", "error" }

\* Variant: every request goes to the first object of the listing.
PatchTargetFirst(rq) == rqs[1].obj

\* The object a Patch request is addressed to: ResourceQuotas(rq.Namespace), rq.Name.
PatchTarget(rq) == rq.obj

\* ResourceQuotas(ns).Patch(name, doc, FieldManager): err is Nil or an error.
Patch(rq, doc, manager, err) ==
    /\ requests' = Append(requests, [obj |-> PatchTarget(rq), doc |-> doc,
                                     manager |-> manager, err |-> err])
    /\ cluster' = IF err = Nil
                    THEN [cluster EXCEPT ![PatchTarget(rq)] = StrategicMergePatch(@, doc)]
                    ELSE cluster

\* Variant: the first failed request ends the loop.
AfterPatchAbort(err) ==
    /\ errorList' = IF err = Nil THEN errorList ELSE Append(errorList, err)
    /\ outcomes' = Append(outcomes, IF err = Nil THEN "Applied" ELSE "Failed")
    /\ idx' = IF err = Nil THEN idx + 1 ELSE Len(rqs) + 1

\* The tail of a loop body: the error is appended, or success is logged.
AfterPatch(err) ==
    /\ errorList' = IF err = Nil THEN errorList ELSE Append(errorList, err)
    /\ outcomes' = Append(outcomes, IF err = Nil THEN "Applied" ELSE "Failed")
    /\ idx' = idx + 1

Exit == pc' = "exited"

(***************************************************************************)
(* The restriction tool (src/unnamed/part_000)                             *)
(***************************************************************************)
\* The checks of NewConfig, in order; TRUE when none calls klog.Exit.
RestrictFlagsValid(sc, action, raw) ==
    /\ sc # ""
    /\ ParseQuantity(raw).ok
    /\ action \in {"add", "remove"}

RestrictNewConfig ==
    /\ pc = "start"
    /\ \E sc \in ClassFlags, action \in ActionFlags, ns \in NamespaceFlags,
          raw \in RawSizes, clientOk \in BOOLEAN :
         /\ cfg' = [NoConfig EXCEPT
                      !.tool = "restrict", !.storageclass = sc, !.action = action,
                      !.namespace = ns,
                      !.size = IF sc # "" /\ ParseQuantity(raw).ok
                                 THEN QuantityString(ParseQuantity(raw)) ELSE raw]
         /\ IF RestrictFlagsValid(sc, action, raw) /\ clientOk
              THEN pc' = "check" ELSE Exit
    /\ UNCHANGED <<cluster, rqs, idx, errorList, ret, lookups, listCalls,
                   requests, outcomes, run, prev>>

RestrictCheckIfStorageclassExist ==
    /\ pc = "check"
    /\ cfg.tool = "restrict"
    /\ \E r \in GetResults(cfg.storageclass) :
         /\ lookups' = Append(lookups, [name |-> cfg.storageclass, result |-> r])
         /\ IF r = "found" THEN pc' = "main" ELSE Exit
    /\ UNCHANGED <<cluster, cfg, rqs, idx, errorList, ret, listCalls,
                   requests, outcomes, run, prev>>

\* Variant: an empty listing is not an error.
ListStepNoEmptyCheck(ns) ==
    /\ listCalls' = listCalls + 1
    /\ \E listOk \in BOOLEAN :
         IF ~listOk
           THEN /\ ret' = [kind |-> "list", errs |-> <<>>]
                /\ pc' = "returned"
                /\ UNCHANGED <<rqs, idx>>
         ELSE /\ rqs' = ListResourceQuotas(ns)
              /\ idx' = 1
              /\ pc' = "loop"
              /\ UNCHANGED ret
    /\ UNCHANGED <<cluster, cfg, errorList, lookups, requests, outcomes, run, prev>>

\* The head of every batch function: List, and the two early returns.
ListStep(ns) ==
    /\ listCalls' = listCalls + 1
    /\ \E listOk \in BOOLEAN :
         IF ~listOk
           THEN /\ ret' = [kind |-> "list", errs |-> <<>>]
                /\ pc' = "returned"
                /\ UNCHANGED <<rqs, idx>>
         ELSE IF Len(ListResourceQuotas(ns)) = 0
           THEN /\ ret' = [kind |-> "noquota", errs |-> <<>>]
                /\ pc' = "returned"
                /\ UNCHANGED <<rqs, idx>>
         ELSE /\ rqs' = ListResourceQuotas(ns)
              /\ idx' = 1
              /\ pc' = "loop"
              /\ UNCHANGED ret
    /\ UNCHANGED <<cluster, cfg, errorList, lookups, requests, outcomes, run, prev>>

\* The patch document of one object in PatchStorageclassRestricted.
RestrictPatchData ==
    IF cfg.action = "add" THEN patchAddTemplate(cfg.storageclass, cfg.size)
    ELSE patchDeleteTemplate(cfg.storageclass)

PatchStorageclassRestrictedList ==
    /\ pc = "main"
    /\ cfg.tool = "restrict"
    /\ ListStep(cfg.namespace)

PatchStorageclassRestrictedStep ==
    /\ pc = "loop"
    /\ cfg.tool = "restrict"
    /\ idx <= Len(rqs)
    /\ \E err \in {Nil} \cup PatchErrors(rqs[idx].obj) :
         /\ Patch(rqs[idx], RestrictPatchData, "storageclass-restriction", err)
         /\ AfterPatch(err)
    /\ UNCHANGED <<pc, cfg, rqs, ret, lookups, listCalls, run, prev>>

PatchStorageclassRestrictedReturn ==
    /\ pc = "loop"
    /\ cfg.tool = "restrict"
    /\ idx > Len(rqs)
    /\ ret' = NewAggregate(errorList)
    /\ pc' = "returned"
    /\ UNCHANGED <<cluster, cfg, rqs, idx, errorList, lookups, listCalls,
                   requests, outcomes, run, prev>>

(***************************************************************************)
(* The migration tool (src/main.go)                                        *)
(***************************************************************************)
\* Variant: old and new storage class may be the same.
MigrateFlagsValidSameAllowed(old, new, mode) ==
    \/ /\ mode = "migrate"
       /\ old # ""
       /\ new # ""
    \/ /\ mode = "set-zero"
       /\ new # ""

MigrateFlagsValid(old, new, mode) ==
    \/ /\ mode = "migrate"
       /\ old # ""
       /\ new # ""
       /\ old # new
    \/ /\ mode = "set-zero"
       /\ new # ""

MigrateNewConfig ==
    /\ pc = "start"
    /\ \E old \in ClassFlags, new \in ClassFlags, ns \in NamespaceFlags,
          mode \in ModeFlags, clientOk \in BOOLEAN :
         /\ cfg' = [NoConfig EXCEPT
                      !.tool = "migrate", !.oldStorageclass = old,
                      !.newStorageclass = new, !.namespace = ns, !.mode = mode]
         /\ IF MigrateFlagsValid(old, new, mode) /\ clientOk
              THEN pc' = "check" ELSE Exit
    /\ UNCHANGED <<cluster, rqs, idx, errorList, ret, lookups, listCalls,
                   requests, outcomes, run, prev>>

\* Variant: only the new storage class is looked up.
MigrateLookupNamesNewOnly == <<cfg.newStorageclass>>

\* The storage classes CheckIfStorageclassExist looks up, in order.
MigrateLookupNames ==
    IF cfg.mode = "migrate" THEN <<cfg.oldStorageclass, cfg.newStorageclass>>
    ELSE <<cfg.newStorageclass>>

MigrateCheckIfStorageclassExist ==
    /\ pc = "check"
    /\ cfg.tool = "migrate"
    /\ LET names == MigrateLookupNames
       IN \E r1 \in GetResults(names[1]) :
            IF r1 # "found"
              THEN /\ lookups' = Append(lookups, [name |-> names[1], result |-> r1])
                   /\ Exit
            ELSE IF Len(names) = 1
              THEN /\ lookups' = Append(lookups, [name |-> names[1], result |-> r1])
                   /\ pc' = "main"
            ELSE \E r2 \in GetResults(names[2]) :
                   /\ lookups' = lookups \o << [name |-> names[1], result |-> r1],
                                               [name |-> names[2], result |-> r2] >>
                   /\ IF r2 = "found" THEN pc' = "main" ELSE Exit
    /\ UNCHANGED <<cluster, cfg, rqs, idx, errorList, ret, listCalls,
                   requests, outcomes, run, prev>>

\* getExistingStorageQuota: the canonical string of requests.storage, or "".
NoQuota == <<"">>
getExistingStorageQuota(rq) ==
    IF Has(rq.hard, GenericKey) THEN Get(rq.hard, GenericKey) ELSE NoQuota

MigrateStorageclassQuotaList ==
    /\ pc = "main"
    /\ cfg.tool = "migrate"
    /\ cfg.mode = "migrate"
    /\ ListStep(cfg.namespace)

\* Variant: a skipped object is recorded as an error.
SkipAsError ==
    /\ outcomes' = Append(outcomes, "Skipped")
    /\ idx' = idx + 1
    /\ errorList' = Append(errorList, [cause |-> "skipped", names |-> rqs[idx].obj])
    /\ UNCHANGED <<cluster, requests>>

\* The skip path of a loop body: the warning, then continue.
Skip ==
    /\ outcomes' = Append(outcomes, "Skipped")
    /\ idx' = idx + 1
    /\ UNCHANGED <<cluster, requests, errorList>>

MigrateStorageclassQuotaStep ==
    /\ pc = "loop"
    /\ cfg.tool = "migrate"
    /\ cfg.mode = "migrate"
    /\ idx <= Len(rqs)
    /\ LET quotaSize == getExistingStorageQuota(rqs[idx])
       IN IF quotaSize = NoQuota
            THEN Skip
            ELSE \E err \in {Nil} \cup PatchErrors(rqs[idx].obj) :
                   /\ Patch(rqs[idx],
                            patchMigrateTemplate(cfg.oldStorageclass, quotaSize,
                                                 cfg.newStorageclass),
                            "storageclass-migration", err)
                   /\ AfterPatch(err)
    /\ UNCHANGED <<pc, cfg, rqs, ret, lookups, listCalls, run, prev>>

MigrateStorageclassQuotaReturn ==
    /\ pc = "loop"
    /\ cfg.tool = "migrate"
    /\ cfg.mode = "migrate"
    /\ idx > Len(rqs)
    /\ ret' = NewAggregate(errorList)
    /\ pc' = "returned"
    /\ UNCHANGED <<cluster, cfg, rqs, idx, errorList, lookups, listCalls,
                   requests, outcomes, run, prev>>

\* Variant: any existing value counts as already set.
AlreadyZeroAnyValue(rq, sc) == Has(rq.hard, StorageclassKey(sc))

\* The skip test of SetStorageclassQuotaToZero.
AlreadyZero(rq, sc) ==
    /\ Has(rq.hard, StorageclassKey(sc))
    /\ Get(rq.hard, StorageclassKey(sc)) = ZeroString

SetStorageclassQuotaToZeroList ==
    /\ pc = "main"
    /\ cfg.tool = "migrate"
    /\ cfg.mode = "set-zero"
    /\ ListStep(cfg.namespace)

SetStorageclassQuotaToZeroStep ==
    /\ pc = "loop"
    /\ cfg.tool = "migrate"
    /\ cfg.mode = "set-zero"
    /\ idx <= Len(rqs)
    /\ IF AlreadyZero(rqs[idx], cfg.newStorageclass)
         THEN Skip
         ELSE \E err \in {Nil} \cup PatchErrors(rqs[idx].obj) :
                /\ Patch(rqs[idx], patchSetZeroTemplate(cfg.newStorageclass),
                         "storageclass-quota-zero", err)
                /\ AfterPatch(err)
    /\ UNCHANGED <<pc, cfg, rqs, ret, lookups, listCalls, run, prev>>

SetStorageclassQuotaToZeroReturn ==
    /\ pc = "loop"
    /\ cfg.tool = "migrate"
    /\ cfg.mode = "set-zero"
    /\ idx > Len(rqs)
    /\ ret' = NewAggregate(errorList)
    /\ pc' = "returned"
    /\ UNCHANGED <<cluster, cfg, rqs, idx, errorList, lookups, listCalls,
                   requests, outcomes, run, prev>>

(***************************************************************************)
(* main, and the next run of the process                                   *)
(***************************************************************************)
\* main after the batch function returned: the success line or the error line.
Main ==
    /\ pc = "returned"
    /\ pc' = "done"
    /\ UNCHANGED <<cluster, cfg, rqs, idx, errorList, ret, lookups, listCalls,
                   requests, outcomes, run, prev>>

RunMode == IF cfg.tool = "restrict" THEN cfg.action ELSE cfg.mode
RunClass == IF cfg.tool = "restrict" THEN cfg.storageclass ELSE cfg.newStorageclass
Listed == [i \in 1..Len(rqs) |-> rqs[i].obj]

\* The process is started again; the cluster is as the last run left it.
Restart ==
    /\ pc \in {"done", "exited"}
    /\ run < MaxRuns
    /\ run' = run + 1
    /\ prev' = IF pc = "done" /\ rqs # <<>>
                 THEN [tool |-> cfg.tool, mode |-> RunMode, sc |-> RunClass,
                       listed |-> Listed, outcomes |-> outcomes,
                       clean |-> ret = Nil]
                 ELSE NoRun
    /\ pc' = "start"
    /\ cfg' = NoConfig
    /\ rqs' = <<>>
    /\ idx' = 1
    /\ errorList' = <<>>
    /\ ret' = Nil
    /\ lookups' = <<>>
    /\ listCalls' = 0
    /\ requests' = <<>>
    /\ outcomes' = <<>>
    /\ UNCHANGED cluster

RunStep ==
    \/ RestrictNewConfig
    \/ RestrictCheckIfStorageclassExist
    \/ PatchStorageclassRestrictedList
    \/ PatchStorageclassRestrictedStep
    \/ PatchStorageclassRestrictedReturn
    \/ MigrateNewConfig
    \/ MigrateCheckIfStorageclassExist
    \/ MigrateStorageclassQuotaList
    \/ MigrateStorageclassQuotaStep
    \/ MigrateStorageclassQuotaReturn
    \/ SetStorageclassQuotaToZeroList
    \/ SetStorageclassQuotaToZeroStep
    \/ SetStorageclassQuotaToZeroReturn
    \/ Main

Next == RunStep

NextRerun == RunStep \/ Restart

Spec == Init /\ [][Next]_vars

SpecRerun == InitRerun /\ [][NextRerun]_vars

(***************************************************************************)
(* Properties                                                              *)
(***************************************************************************)
InBatch == pc \in {"loop", "returned", "done"} /\ rqs # <<>>
Finished == pc \in {"returned", "done"} /\ rqs # <<>>
Failures == { i \in 1..Len(requests) : requests[i].err # Nil }
DocKeys(doc) == { doc[i][1] : i \in 1..Len(doc) }

\* The objects among the first k of the listing that were not skipped, in order.
RECURSIVE PatchedObjects(_)
PatchedObjects(k) ==
    IF k = 0 THEN <<>>
    ELSE PatchedObjects(k - 1) \o
         (IF outcomes[k] = "Skipped" THEN <<>> ELSE <<rqs[k].obj>>)

\* C1: once the listing is non-empty, the Patch requests issued so far are
\* exactly one per processed object that was not skipped and none per skipped
\* object, in listing order, whether earlier requests failed or not; the batch
\* function returns only after every listed object was processed.
C1_OnePatchPerObject ==
    InBatch =>
      /\ Len(outcomes) = idx - 1
      /\ idx <= Len(rqs) + 1
      /\ (pc # "loop" => idx = Len(rqs) + 1)
      /\ [i \in 1..Len(requests) |-> requests[i].obj] = PatchedObjects(idx - 1)
      /\ \A i \in 1..(idx - 1) :
           Cardinality({ j \in 1..Len(requests) : requests[j].obj = rqs[i].obj })
             = IF outcomes[i] = "Skipped" THEN 0 ELSE 1

C1_Witness ==
    /\ pc = "done"
    /\ outcomes = <<"Failed", "Skipped", "Applied">>
    /\ Len(requests) = 2

\* C2: after a non-empty listing the batch function returns a non-nil error
\* exactly when some Patch request failed, with one entry per failed request;
\* skipped objects add nothing.
C2_ErrorIffFailure ==
    Finished =>
      /\ (ret # Nil <=> Failures # {})
      /\ Len(ret.errs) = Cardinality(Failures)
      /\ ret.errs = errorList
      /\ Cardinality(Failures)
           = Cardinality({ i \in 1..Len(outcomes) : outcomes[i] = "Failed" })

C2_Witness ==
    /\ pc = "done"
    /\ outcomes = <<"Applied", "Skipped", "Failed">>
    /\ Len(ret.errs) = 1

C2_WitnessSuccess ==
    /\ pc = "done"
    /\ outcomes = <<"Applied", "Skipped", "Applied">>
    /\ ret = Nil

\* C3: the aggregate error names each object whose patch failed, and no other.
C3_AggregateNamesFailedObjects ==
    Finished =>
      \A i \in 1..Len(rqs) :
        outcomes[i] = "Failed" <=> \E k \in 1..Len(ret.errs) : ret.errs[k].names = rqs[i].obj

\* C7: when the listing fails or is empty, the batch function returns a
\* non-nil error and no Patch request is issued.
C7_NoScopeNoPatch ==
    (listCalls > 0 /\ rqs = <<>>) =>
      /\ pc \in {"returned", "done"}
      /\ ret.kind \in {"list", "noquota"}
      /\ ret # Nil
      /\ requests = <<>>
      /\ outcomes = <<>>

C7_WitnessEmpty == pc = "done" /\ ret.kind = "noquota" /\ cfg.namespace = "ns9"
C7_WitnessListError == pc = "done" /\ ret.kind = "list" /\ cfg.namespace = ""

\* C10: no patch document names a key twice (a migrate run passes NewConfig
\* only with different old and new storage classes), and spec.hard of every
\* object holds at most one value per key.
C10_NoDuplicateKeys ==
    /\ \A i \in 1..Len(requests) :
         \A a, b \in 1..Len(requests[i].doc) :
           requests[i].doc[a][1] = requests[i].doc[b][1] => a = b
    /\ (cfg.tool = "migrate" /\ cfg.mode = "migrate" /\ pc # "exited" /\ pc # "start")
         => cfg.oldStorageclass # cfg.newStorageclass
    /\ \A o \in DOMAIN cluster :
         \A p, q \in cluster[o] : p[1] = q[1] => p = q

C10_Witness ==
    /\ cfg.mode = "migrate"
    /\ Len(requests) = 2
    /\ requests[2].err = Nil
    /\ Len(requests[2].doc) = 2

\* C5: in a migrate run an object is skipped, with no Patch request, exactly
\* when its listed copy has no requests.storage key; after a successful patch
\* the object holds the listed requests.storage value v under the old storage
\* class's key, "0" under the new one's, and requests.storage is still v.
C5_MigrationConserves ==
    (InBatch /\ cfg.tool = "migrate" /\ cfg.mode = "migrate") =>
      \A i \in 1..Len(outcomes) :
        LET o == rqs[i].obj
            listed == { p \in rqs[i].hard : p[1] = GenericKey }
        IN /\ outcomes[i] = "Skipped" <=> listed = {}
           /\ outcomes[i] = "Skipped" =>
                /\ \A j \in 1..Len(requests) : requests[j].obj # o
                /\ cluster[o] = rqs[i].hard
           /\ outcomes[i] = "Applied" =>
                \E p \in listed :
                  /\ <<StorageclassKey(cfg.oldStorageclass), p[2]>> \in cluster[o]
                  /\ <<StorageclassKey(cfg.newStorageclass), <<0, "">>>> \in cluster[o]
                  /\ <<GenericKey, p[2]>> \in cluster[o]

C5_Witness ==
    /\ pc = "done"
    /\ cfg.mode = "migrate"
    /\ outcomes = <<"Applied", "Skipped", "Applied">>
    /\ <<StorageclassKey(cfg.oldStorageclass), <<50, "G">>>> \in cluster[rqs[3].obj]

\* The flags as NewConfig requires them, read off the Config struct.
FlagsAccepted ==
    IF cfg.tool = "restrict"
      THEN /\ cfg.storageclass # ""
           /\ cfg.action \in {"add", "remove"}
           /\ cfg.size[2] \in SeqRange(DecimalSuffixes) \cup SeqRange(BinarySuffixes)
      ELSE /\ cfg.newStorageclass # ""
           /\ cfg.mode \in {"migrate", "set-zero"}
           /\ cfg.mode = "migrate" =>
                cfg.oldStorageclass \notin {"", cfg.newStorageclass}

ReferencedClasses ==
    IF cfg.tool = "restrict" THEN <<cfg.storageclass>>
    ELSE IF cfg.mode = "migrate" THEN <<cfg.oldStorageclass, cfg.newStorageclass>>
    ELSE <<cfg.newStorageclass>>

\* C8: a List or Patch request is issued only after the flags were accepted
\* and every storage class the run refers to was looked up and found; a run
\* that exits (flag missing, quota invalid, class not found, lookup failed)
\* has issued no List and no Patch request.
C8_ChecksBeforeRequests ==
    /\ (listCalls > 0 \/ requests # <<>>) =>
         /\ FlagsAccepted
         /\ Len(lookups) = Len(ReferencedClasses)
         /\ \A i \in 1..Len(lookups) :
              /\ lookups[i].name = ReferencedClasses[i]
              /\ lookups[i].result = "found"
              /\ lookups[i].name \in ExistingClasses
    /\ pc = "exited" => (listCalls = 0 /\ requests = <<>>)
    /\ (cfg.tool # "" /\ ~FlagsAccepted) => (pc = "exited" /\ lookups = <<>>)
    /\ (\E i \in 1..Len(lookups) : lookups[i].result # "found") => pc = "exited"

C8_Witness ==
    /\ pc = "exited"
    /\ cfg.mode = "migrate"
    /\ Len(lookups) = 2
    /\ lookups[2].result = "notfound"

\* C9: the cluster changes only in a step that issues a successful Patch
\* request, only in the object the loop is at, and only at the keys the patch
\* document names; a failed request changes nothing, so objects patched
\* earlier in the run keep their values.
C9_PatchFrame ==
    [][ /\ DOMAIN cluster' = DOMAIN cluster
        /\ cluster' # cluster =>
             /\ pc = "loop"
             /\ idx <= Len(rqs)
             /\ Len(requests') = Len(requests) + 1
             /\ LET r == requests'[Len(requests')]
                    o == rqs[idx].obj
                IN /\ r.err = Nil
                   /\ r.obj = o
                   /\ \A x \in DOMAIN cluster : x # o => cluster'[x] = cluster[x]
                   /\ \A p \in (cluster[o] \ cluster'[o]) \cup (cluster'[o] \ cluster[o]) :
                        p[1] \in DocKeys(r.doc)
        /\ (Len(requests') = Len(requests) + 1 /\ requests'[Len(requests')].err # Nil)
             => cluster' = cluster
      ]_vars

C9_Witness ==
    /\ pc = "done"
    /\ cfg.action = "add"
    /\ outcomes = <<"Applied", "Failed", "Applied">>
    /\ <<StorageclassKey(cfg.storageclass), cfg.size>> \in cluster[rqs[1].obj]
    /\ <<StorageclassKey(cfg.storageclass), cfg.size>> \notin rqs[1].hard
    /\ cluster[rqs[2].obj] = rqs[2].hard

\* The outcome the previous run had for object o, "" when it did not list o.
PrevOutcome(o) ==
    IF \E i \in 1..Len(prev.listed) : prev.listed[i] = o
      THEN prev.outcomes[CHOOSE i \in 1..Len(prev.listed) : prev.listed[i] = o]
      ELSE ""

C6_RestrictRoundTrip ==
    (InBatch /\ cfg.tool = "restrict") =>
      /\ Len(requests) = Len(outcomes)
      /\ \A i \in 1..Len(outcomes) :
           LET o == rqs[i].obj
               key == StorageclassKey(cfg.storageclass)
           IN /\ outcomes[i] # "Skipped"
              /\ requests[i].obj = o
              /\ (outcomes[i] = "Applied" /\ cfg.action = "add")
                   => { p \in cluster[o] : p[1] = key } = { <<key, cfg.size>> }
              /\ (outcomes[i] = "Applied" /\ cfg.action = "remove")
                   => { p \in cluster[o] : p[1] = key } = {}
              /\ (outcomes[i] = "Failed")
                   => { p \in cluster[o] : p[1] = key } = { p \in rqs[i].hard : p[1] = key }

C6_Witness ==
    /\ pc = "done"
    /\ run = 2
    /\ cfg.action = "remove"
    /\ prev.tool = "restrict"
    /\ prev.mode = "add"
    /\ prev.sc = cfg.storageclass
    /\ prev.outcomes = <<"Applied", "Applied">>
    /\ outcomes = <<"Applied", "Applied">>
    /\ <<StorageclassKey(cfg.storageclass), <<50, "G">>>> \in rqs[1].hard
    /\ \A o \in DOMAIN cluster :
         \A p \in cluster[o] : p[1] # StorageclassKey(cfg.storageclass)

====
